---- MODULE Spec2Model ----
(***************************************************************************)
(* Model of the Spotify rehydrator:                                        *)
(*   src/src/spotifyrehydrator/rehydrate.py  (Track, Tracks,               *)
(*                                            ListeningHistory)            *)
(*   src/rehydrator/functions.py             (get_track, add_track_id)     *)
(*                                                                         *)
(* A Python str is a sequence of one-character strings.  The catalog       *)
(* (the spotipy client) is the environment: every search call gets one of  *)
(* the answers of SearchResponses, and the bulk audio-features call        *)
(* answers from the set catalog_features of identifiers that have          *)
(* features.                                                               *)
(***************************************************************************)
EXTENDS Integers, Sequences, FiniteSets, TLC

\* ------------------------------------------------------------------ bounds
\* longest track name drawn for the resolver
MaxLen == 2
\* longest artist name drawn for the resolver
MaxArtistLen == 1
\* most listening events of one history
MaxEvents == 3
\* most rows of the table handed to the chunk loop of the feature fetch
MaxTracks == 205

\* ------------------------------------------------------- program constants
\* range(0, len(to_find), 100) and to_find[i : i + 100]
ChunkSize == 100

\* ------------------------------------------------------------------ strings
Alphabet == {"a", "'", "-", " "}

StrsUpTo(n) == UNION {[1..k -> Alphabet] : k \in 0..n}

\* remove_char=None of Track.search_results
NoChar == << >>
\* remove_char="'"
Apostrophe == <<"'">>
\* remove_char="- "
DashSpace == <<"-", " ">>

\* str.replace(old, ""): every non-overlapping occurrence of old, found
\* left to right, is removed; with remove_char None the string is unchanged.
RECURSIVE Replace(_, _)
Replace(s, old) ==
  IF old = << >> \/ Len(s) < Len(old) THEN s
  ELSE IF SubSeq(s, 1, Len(old)) = old
       THEN Replace(SubSeq(s, Len(old) + 1, Len(s)), old)
       ELSE <<Head(s)>> \o Replace(Tail(s), old)

\* ------------------------------------------------------------- the catalog
Ids == {"id1", "id2"}
MISSING == "MISSING"
ERROR == "ERROR"
Sentinels == {MISSING, ERROR}

\* What one call of sp.search can do: return a result object whose
\* tracks.items list has a first item (match) or is empty (empty), or raise.
\* SpotifyException is the auth-expiry class, ConnectionError stands for any
\* other error; IndexError is the exception the handlers of Track.get and
\* add_track_id wait for.
Raises == {"IndexError", "SpotifyException", "ConnectionError"}

SearchResponses ==
  [kind : {"match"}, id : Ids] \cup [kind : {"empty"} \cup Raises, id : {""}]

IsRaise(r) == r.kind \in Raises

\* the three answers the catalog would give to the first, second and third
\* search of one resolve
Resp3 == [1..3 -> SearchResponses]

\* The "no result" condition of a search: no item in the result, or the
\* IndexError that reading the first item of an empty result gives.
NoResult(r) == r.kind \in {"empty", "IndexError"}

\* ---------------------------------------------------------------- Track
\* the q= arguments of sp.search in Track.search_results
search_results(artist, name, remove_char) ==
  [artist |-> Replace(artist, remove_char), track |-> Replace(name, remove_char)]

Returned(searches, v) == [searches |-> searches, kind |-> "return", value |-> v]
Raised(searches, e) == [searches |-> searches, kind |-> "raise", value |-> e]
Pending == [searches |-> << >>, kind |-> "pending", value |-> ""]

\* Track._extract_results with every option flag false:
\* track_info["spotifyID"] = results["tracks"]["items"][0]["id"], which
\* raises IndexError on an empty items list.
extract_results(searches, r) ==
  IF r.kind = "match" THEN Returned(searches, r.id)
  ELSE Raised(searches, "IndexError")

\* Track.get with the two retries in the other order: "- " stripped
\* before the apostrophes.
TrackGet_DashFirst(artist, name, resp) ==
  LET q1 == search_results(artist, name, NoChar)
      q2 == search_results(artist, name, DashSpace)
      q3 == search_results(artist, name, Apostrophe)
  IN IF resp[1].kind = "IndexError"
     THEN IF resp[2].kind = "IndexError"
          THEN IF resp[3].kind = "IndexError"
               THEN Returned(<<q1, q2, q3>>, MISSING)
               ELSE IF IsRaise(resp[3])
                    THEN Raised(<<q1, q2, q3>>, resp[3].kind)
                    ELSE extract_results(<<q1, q2, q3>>, resp[3])
          ELSE IF IsRaise(resp[2])
               THEN Raised(<<q1, q2>>, resp[2].kind)
               ELSE extract_results(<<q1, q2>>, resp[2])
     ELSE IF IsRaise(resp[1])
          THEN Returned(<<q1>>, ERROR)
          ELSE extract_results(<<q1>>, resp[1])

\* Track.get: the nested try statement.  The handlers "except IndexError"
\* wrap the calls of search_results only; "except Exception" belongs to the
\* outermost try, so it sees the first search only; _extract_results runs
\* after the try statement.
TrackGet(artist, name, resp) ==
  LET q1 == search_results(artist, name, NoChar)
      q2 == search_results(artist, name, Apostrophe)
      q3 == search_results(artist, name, DashSpace)
  IN IF resp[1].kind = "IndexError"
     THEN IF resp[2].kind = "IndexError"
          THEN IF resp[3].kind = "IndexError"
               THEN Returned(<<q1, q2, q3>>, MISSING)
               ELSE IF IsRaise(resp[3])
                    THEN Raised(<<q1, q2, q3>>, resp[3].kind)
                    ELSE extract_results(<<q1, q2, q3>>, resp[3])
          ELSE IF IsRaise(resp[2])
               THEN Raised(<<q1, q2>>, resp[2].kind)
               ELSE extract_results(<<q1, q2>>, resp[2])
     ELSE IF IsRaise(resp[1])
          THEN Returned(<<q1>>, ERROR)
          ELSE extract_results(<<q1>>, resp[1])

\* ------------------------------------------------- functions.py resolver
GetQuery(artist, track) == [artist |-> artist, track |-> track]

\* get_track: sp.search(...) then results["tracks"]["items"][0]["id"]
get_track(r) ==
  IF r.kind = "match" THEN [kind |-> "return", value |-> r.id]
  ELSE IF r.kind = "empty" THEN [kind |-> "raise", value |-> "IndexError"]
  ELSE [kind |-> "raise", value |-> r.kind]

\* tracks["trackID"][i] = "ERROR", e  stores the pair ("ERROR", e)
ErrorCell(e) ==
  IF e = "SpotifyException" THEN "('ERROR', SpotifyException)"
  ELSE "('ERROR', ConnectionError)"

\* One iteration of the loop of add_track_id: the value stored in the
\* trackID cell of the row, or the exception that leaves the loop.
add_track_id_row(artist, name, resp) ==
  LET q1 == GetQuery(artist, name)
      q2 == GetQuery(Replace(artist, Apostrophe), Replace(name, Apostrophe))
      q3 == GetQuery(Replace(artist, DashSpace), Replace(name, DashSpace))
      g1 == get_track(resp[1])
      g2 == get_track(resp[2])
      g3 == get_track(resp[3])
  IN IF g1.kind = "return" THEN Returned(<<q1>>, g1.value)
     ELSE IF g1.value = "IndexError"
     THEN IF g2.kind = "return" THEN Returned(<<q1, q2>>, g2.value)
          ELSE IF g2.value = "IndexError"
          THEN IF g3.kind = "return" THEN Returned(<<q1, q2, q3>>, g3.value)
               ELSE IF g3.value = "IndexError"
               THEN Returned(<<q1, q2, q3>>, MISSING)
               ELSE Raised(<<q1, q2, q3>>, g3.value)
          ELSE Raised(<<q1, q2>>, g2.value)
     ELSE Returned(<<q1>>, ErrorCell(g1.value))

\* ------------------------------------------------------------------ state
VARIABLES
  \* the pair handed to the resolver, Track(name, artist), and the three answers
  r_artist, r_name, r_resp,
  \* what Track.get did, what one row of add_track_id's loop did
  track_out, row_out,
  \* ListeningHistory._input_data: the events, each an (artistName, trackName)
  input_data,
  \* ListeningHistory.person_id
  self_person_id,
  \* Tracks.names and its trackID column
  names, trackID,
  \* where the run is, the loop variable i, the exception that ended the run
  pc, i, raised,
  \* number of calls of Tracks.set_sp
  set_sp_calls,
  \* every Track(...).spotifyID of get_track_ids, in order
  resolves,
  \* get_features: to_find, every audio_features call, feature_dict
  to_find, calls, feature_dict,
  \* the identifiers the catalog has audio features for
  catalog_features,
  \* Tracks.full_dataset and the table ListeningHistory.rehydrate returns
  full_dataset, rehydrated_data

resolver_vars == <<r_artist, r_name, r_resp, track_out, row_out>>

tracks_vars ==
  <<input_data, self_person_id, names, trackID, pc, i, raised, set_sp_calls, resolves,
    to_find, calls, feature_dict, catalog_features, full_dataset,
    rehydrated_data>>

VARIABLES
  \* Rehydrator: os.listdir(input_path), the files of output_path (now and
  \* when the current run started), whether output_path exists
  files, output, output0, output_exists,
  \* what the expression ListeningHistory(...).rehydrate of run stands for
  rehydrate_attr,
  \* Rehydrator._person_ids, where run is, its loop index, the exception
  \* that left it
  self_person_ids, run_pc, run_i, run_raised,
  \* the number of the run, how the earlier runs ended, every
  \* ListeningHistory the current run built
  run_no, ended, histories,
  \* add_track_id: its argument file, temp/id_matched.tsv, and the locals
  \* existing_df, tracks (tracks_df), matched
  file, id_matched, existing_df, tracks_df, matched,
  \* where add_track_id is, its loop index, the pairs handed to get_track,
  \* the exception that left it
  add_pc, add_i, searched, add_raised

run_vars ==
  <<files, output, output0, output_exists, rehydrate_attr, self_person_ids,
    run_pc, run_i, run_raised, run_no, ended, histories>>

add_vars ==
  <<file, id_matched, existing_df, tracks_df, matched, add_pc, add_i,
    searched, add_raised>>

\* Tracks(names=...): the column names of the table given as names
VARIABLES columns

\* Track.get(return_all, returned_artist, ...): the option flags that are
\* True, what sp.artist and sp.audio_features would answer, the endpoints
\* called in order, and what get returns or raises
VARIABLES options, lookups, sp_calls, track_info

unit_vars == <<columns, options, lookups, sp_calls, track_info>>

vars == <<resolver_vars, tracks_vars, run_vars, add_vars, unit_vars>>

\* ----------------------------------------------------------------- helpers
RECURSIVE Flatten(_)
Flatten(ss) == IF ss = << >> THEN << >> ELSE Head(ss) \o Flatten(Tail(ss))

Min(a, b) == IF a < b THEN a ELSE b

\* the table as it is, repeated rows kept
drop_duplicates_KeepAll(rows) == rows

\* DataFrame.drop_duplicates(): the first occurrence of every row, in order
RECURSIVE drop_duplicates(_)
drop_duplicates(rows) ==
  IF rows = << >> THEN << >>
  ELSE LET front == drop_duplicates(SubSeq(rows, 1, Len(rows) - 1))
           last == rows[Len(rows)]
       IN IF \E k \in 1..Len(front) : front[k] = last
          THEN front ELSE Append(front, last)

Null == "NA"

\* pd.merge(tracks, features, how="left", left_on="trackID", right_on="id"):
\* a row of tracks is repeated once per row of features with its id, and
\* kept once with null feature columns when there is none.
merge_features(tracks, feats) ==
  Flatten([k \in 1..Len(tracks) |->
    LET hits == SelectSeq(feats, LAMBDA f : f = tracks[k].trackID)
    IN IF hits = << >>
       THEN <<[artistName |-> tracks[k].artistName,
               trackName |-> tracks[k].trackName,
               trackID |-> tracks[k].trackID, features |-> Null]>>
       ELSE [h \in 1..Len(hits) |->
              [artistName |-> tracks[k].artistName,
               trackName |-> tracks[k].trackName,
               trackID |-> tracks[k].trackID, features |-> hits[h]]]])

\* pd.merge(self._input_data, track_data, how="left",
\*          on=["artistName", "trackName"])
merge_events(events, track_data) ==
  Flatten([k \in 1..Len(events) |->
    LET hits == SelectSeq(track_data,
                  LAMBDA t : t.artistName = events[k][1]
                             /\ t.trackName = events[k][2])
    IN IF hits = << >>
       THEN <<[event |-> k, artistName |-> events[k][1],
               trackName |-> events[k][2], trackID |-> Null,
               features |-> Null]>>
       ELSE [h \in 1..Len(hits) |->
              [event |-> k, artistName |-> events[k][1],
               trackName |-> events[k][2], trackID |-> hits[h].trackID,
               features |-> hits[h].features]]])

\* ------------------------------------------------- file names and tables
\* A str is the sequence of its characters.
P1 == <<"p", "1">>
P10 == <<"p", "1", "0">>
P2 == <<"p", "2">>
DotJson == <<".", "j", "s", "o", "n">>
DotTxt == <<".", "t", "x", "t">>
HydratedTsv == <<"h", "y", "d", "r", "a", "t", "e", "d", ".", "t", "s", "v">>

\* the names an input folder is drawn from: two files of p1, one of p10,
\* one of p2, one without prefix, and one of p1 that is not a .json file
FileNames ==
  { P1 \o <<"_", "a">> \o DotJson,
    P1 \o <<"_", "b">> \o DotJson,
    P10 \o <<"_", "a">> \o DotJson,
    P2 \o <<"_", "a">> \o DotJson,
    <<"h">> \o DotJson,
    P1 \o <<"_", "n">> \o DotTxt }

\* str.endswith, str.startswith, str.split(sep=...)
endswith(s, suffix) ==
  /\ Len(s) >= Len(suffix)
  /\ SubSeq(s, Len(s) - Len(suffix) + 1, Len(s)) = suffix

startswith(s, prefix) ==
  Len(s) >= Len(prefix) /\ SubSeq(s, 1, Len(prefix)) = prefix

RECURSIVE split(_, _)
split(s, sep) ==
  IF \A k \in 1..Len(s) : s[k] # sep THEN <<s>>
  ELSE LET k == CHOOSE j \in 1..Len(s) :
                  s[j] = sep /\ \A h \in 1..(j - 1) : s[h] # sep
       IN <<SubSeq(s, 1, k - 1)>> \o split(SubSeq(s, k + 1, Len(s)), sep)

\* person_id=None and _person_ids = None (list(ids) is never empty)
NoPerson == << >>
NoIds == << >>

\* the name save writes to
OutName(person_id) ==
  IF person_id = NoPerson THEN HydratedTsv
  ELSE person_id \o <<"_">> \o HydratedTsv

OutNames == {OutName(p) : p \in {P1, P10, P2, NoPerson}}

\* the content of a name of the output folder: no such file, a file that
\* was there before the first run, the table to_csv wrote for the events
\* of the files read
NoFile == [kind |-> "absent", personID |-> NoPerson, files |-> << >>]
OldFile == [kind |-> "old", personID |-> NoPerson, files |-> << >>]
Table(person_id, read) ==
  [kind |-> "table", personID |-> person_id, files |-> read]

\* temp/id_matched.tsv: missing, or the rows of the table
NoSnapshot == [exists |-> FALSE, rows |-> << >>]
Snapshot(rows) == [exists |-> TRUE, rows |-> rows]

RunIdle ==
  /\ files = << >>
  /\ output = [n \in OutNames |-> NoFile] /\ output0 = output
  /\ output_exists = FALSE
  /\ rehydrate_attr = "method"
  /\ self_person_ids = NoIds /\ run_pc = "idle" /\ run_i = 0
  /\ run_raised = ""
  /\ run_no = 0 /\ ended = << >> /\ histories = << >>

AddIdle ==
  /\ file = << >> /\ id_matched = NoSnapshot /\ existing_df = NoSnapshot
  /\ tracks_df = << >> /\ matched = << >>
  /\ add_pc = "idle" /\ add_i = 0 /\ searched = << >> /\ add_raised = ""

\* ------------------------------------------------------ the resolver alone
NoAnswers == [k \in 1..3 |-> [kind |-> "empty", id |-> ""]]

\* the columns of a listening history: artistName and trackName, which
\* Tracks reads, among the others
PairColumns == {"artistName", "trackName"}

\* no call of Track.get with options
NoInfo == [kind |-> "pending", keys |-> {}, spotifyID |-> "", error |-> ""]
NoLookups == [artist |-> "ok", audio_features |-> "ok"]

GetIdle ==
  /\ options = {} /\ lookups = NoLookups
  /\ sp_calls = << >> /\ track_info = NoInfo

UnitIdle == GetIdle /\ columns = {}

ResolverIdle ==
  /\ r_artist = << >> /\ r_name = << >> /\ r_resp = NoAnswers
  /\ track_out = Pending /\ row_out = Pending

TracksIdle ==
  /\ input_data = << >> /\ self_person_id = NoPerson
  /\ names = << >> /\ trackID = << >>
  /\ pc = "idle" /\ i = 0 /\ raised = ""
  /\ set_sp_calls = 0 /\ resolves = << >>
  /\ to_find = << >> /\ calls = << >> /\ feature_dict = << >>
  /\ catalog_features = {}
  /\ full_dataset = << >> /\ rehydrated_data = << >>

InitResolver ==
  /\ r_artist \in StrsUpTo(MaxArtistLen)
  /\ r_name \in StrsUpTo(MaxLen)
  /\ r_resp \in Resp3
  /\ track_out = Pending /\ row_out = Pending
  /\ TracksIdle /\ RunIdle /\ AddIdle
  /\ UnitIdle

\* Track(name=r_name, artist=r_artist, ...).get()
TrackGetCall ==
  /\ track_out = Pending
  /\ track_out' = TrackGet(r_artist, r_name, r_resp)
  /\ UNCHANGED <<r_artist, r_name, r_resp, row_out, tracks_vars,
               run_vars, add_vars, unit_vars>>

\* the body of "for i, row in tracks.iterrows()" of add_track_id for the
\* row (r_artist, r_name)
AddTrackIdRow ==
  /\ row_out = Pending
  /\ row_out' = add_track_id_row(r_artist, r_name, r_resp)
  /\ UNCHANGED <<r_artist, r_name, r_resp, track_out, tracks_vars,
               run_vars, add_vars, unit_vars>>

NextResolver == TrackGetCall \/ AddTrackIdRow

SpecResolver == InitResolver /\ [][NextResolver]_vars

\* --------------------------------------- ListeningHistory and Tracks
\* artist and track names of the histories
ArtistA == <<"a">>
ArtistB == <<"a", "'">>
TrackX == <<"a">>
TrackY == <<"-", " ", "a">>
PairSet == {<<ArtistA, TrackX>>, <<ArtistA, TrackY>>, <<ArtistB, TrackY>>}

SeqsUpTo(S, n) == UNION {[1..k -> S] : k \in 0..n}

\* rehydrate with the column written whether or not there is a person_id
personID_Always(rows, person_id) ==
  [k \in 1..Len(rows) |-> rows[k] @@ [personID |-> person_id]]

\* "if self.person_id is not None: rehydrated_data["personID"] =
\* self.person_id": every row gets the column, or the table stays as it is
personID(rows, person_id) ==
  IF person_id # NoPerson
  THEN [k \in 1..Len(rows) |-> rows[k] @@ [personID |-> person_id]]
  ELSE rows

\* pd.DataFrame.from_records(all_data) in input_data: the columns are the
\* keys of the events, and a table made of no event has no column
from_records(events) ==
  IF events = << >> THEN {} ELSE PairColumns \cup {"endTime", "msPlayed"}

\* df[[...]] that is content with one of the columns asked for
HasColumns_Any(cols, wanted) == cols \cap wanted # {}

\* df[["artistName", "trackName"]]: KeyError unless every column asked
\* for is in the table
HasColumns(cols, wanted) == wanted \subseteq cols

\* the state when ListeningHistory has read its events (__post_init__) and
\* rehydrate has not started
Init ==
  /\ ResolverIdle /\ RunIdle /\ AddIdle
  /\ GetIdle
  /\ input_data \in SeqsUpTo(PairSet, MaxEvents)
  /\ self_person_id \in {NoPerson, P1}
  /\ columns = from_records(input_data)
  /\ catalog_features \in SUBSET Ids
  /\ names = << >> /\ trackID = << >>
  /\ pc = "new" /\ i = 0 /\ raised = ""
  /\ set_sp_calls = 0 /\ resolves = << >>
  /\ to_find = << >> /\ calls = << >> /\ feature_dict = << >>
  /\ full_dataset = << >> /\ rehydrated_data = << >>

\* ListeningHistory.rehydrate up to the loop of get_track_ids:
\* self._input_data[["artistName", "trackName"]] (KeyError on a table
\* without columns, which is what from_records([]) gives), then
\* Tracks.__post_init__ (drop_duplicates, set_sp), .full_dataset ->
\* get_features -> get_track_ids: tracks["trackID"] = "".
Rehydrate ==
  /\ pc = "new"
  /\ IF ~HasColumns(columns, PairColumns)
     THEN /\ pc' = "raised" /\ raised' = "KeyError"
          /\ UNCHANGED <<names, trackID, i, set_sp_calls>>
     ELSE /\ names' = drop_duplicates(input_data)
          /\ trackID' = [k \in 1..Len(names') |-> ""]
          /\ set_sp_calls' = set_sp_calls + 1
          /\ pc' = "get_track_ids" /\ i' = 1
          /\ raised' = raised
  /\ UNCHANGED <<input_data, resolves, to_find, calls, feature_dict,
                 catalog_features, full_dataset, rehydrated_data,
                 self_person_id, resolver_vars, run_vars, add_vars,
                 unit_vars>>

Attempt(out) == [kind |-> out.kind, value |-> out.value]

\* what Track(artist, name).get() can do, over all answers of the catalog
TrackOutcomes(artist, name) ==
  {Attempt(TrackGet(artist, name, resp)) : resp \in Resp3}

\* What the expression Track(artist=..., name=..., sp_auth=...).spotifyID of
\* get_track_ids can do.  The loop is written against a Track that takes
\* sp_auth and has a spotifyID attribute: its value is the spotifyID entry
\* of what Track.get gives, and what Track.get raises leaves the
\* expression.  The Track class of this file has the field sp_creds and a
\* read-only property sp_auth, so its constructor refuses the keyword with
\* TypeError; that outcome is kept beside the others.
SpotifyIDOutcomes(artist, name) ==
  TrackOutcomes(artist, name) \cup {[kind |-> "raise", value |-> "TypeError"]}

\* get_track_ids with the retry retried: a third Track after the second
get_track_ids_row_RetryTwice(first, second) ==
  IF first.kind = "return"
  THEN [attempts |-> <<first>>, set_sp |-> 0,
        kind |-> "return", value |-> first.value]
  ELSE IF first.value = "SpotifyException"
  THEN [attempts |-> <<first, second, second>>, set_sp |-> 2,
        kind |-> second.kind, value |-> second.value]
  ELSE [attempts |-> <<first>>, set_sp |-> 0,
        kind |-> "raise", value |-> first.value]

\* One iteration of the loop of get_track_ids: first is what the Track of
\* the try block did, second what the Track built in the handler of
\* SpotifyException did, after set_sp().  That second Track is built inside
\* the handler, so nothing catches what it raises.
get_track_ids_row(first, second) ==
  IF first.kind = "return"
  THEN [attempts |-> <<first>>, set_sp |-> 0,
        kind |-> "return", value |-> first.value]
  ELSE IF first.value = "SpotifyException"
  THEN [attempts |-> <<first, second>>, set_sp |-> 1,
        kind |-> second.kind, value |-> second.value]
  ELSE [attempts |-> <<first>>, set_sp |-> 0,
        kind |-> "raise", value |-> first.value]

\* the effect of one iteration: tracks["trackID"][i] = ... writes the cell
\* of row i (the chained assignment reaches the table, as it does without
\* copy-on-write), or the exception leaves the loop
RowDone(o) ==
  /\ resolves' = resolves \o
       [k \in 1..Len(o.attempts) |->
          [row |-> i, kind |-> o.attempts[k].kind, value |-> o.attempts[k].value]]
  /\ set_sp_calls' = set_sp_calls + o.set_sp
  /\ IF o.kind = "return"
     THEN /\ trackID' = [trackID EXCEPT ![i] = o.value]
          /\ i' = i + 1
          /\ UNCHANGED <<pc, raised>>
     ELSE /\ pc' = "raised" /\ raised' = o.value
          /\ UNCHANGED <<trackID, i>>

GetTrackIdsRow ==
  /\ pc = "get_track_ids" /\ i <= Len(names)
  /\ LET outcomes == SpotifyIDOutcomes(names[i][1], names[i][2])
     IN \E first \in outcomes :
          IF first.kind = "raise" /\ first.value = "SpotifyException"
          THEN \E second \in outcomes : RowDone(get_track_ids_row(first, second))
          ELSE RowDone(get_track_ids_row(first, first))
  /\ UNCHANGED <<input_data, names, to_find, calls, feature_dict,
                 catalog_features, full_dataset, rehydrated_data,
                 self_person_id, resolver_vars, run_vars, add_vars,
                 unit_vars>>

\* "Make a list of IDs without any trackIDs that were missing or errors":
\*   to_find = tracks[~tracks["trackID"].isin(["MISSING", "ERROR"])]
\*   to_find = tracks["trackID"].to_list()
\* the second assignment reads tracks, not the filtered table.
ToFind(ids) == ids

\* get_track_ids returns (the loop is over); get_features builds to_find
\* and the empty feature_dict.
GetTrackIdsReturn ==
  /\ pc = "get_track_ids" /\ i > Len(names)
  /\ to_find' = ToFind(trackID)
  /\ feature_dict' = << >>
  /\ pc' = "get_features" /\ i' = 0
  /\ UNCHANGED <<input_data, names, trackID, raised, set_sp_calls, resolves,
                 calls, catalog_features, full_dataset, rehydrated_data,
                 self_person_id, resolver_vars, run_vars, add_vars,
                 unit_vars>>

\* the slice taken one element too far: to_find[i : i + 101]
Chunk_OneTooFar(ids, start) ==
  SubSeq(ids, start + 1, Min(start + ChunkSize + 1, Len(ids)))

\* to_find[i : i + 100]
Chunk(ids, start) == SubSeq(ids, start + 1, Min(start + ChunkSize, Len(ids)))

\* sp.audio_features(ids): one entry per identifier passed, the feature set
\* (named by its id) or None
audio_features(ids) ==
  [k \in 1..Len(ids) |-> IF ids[k] \in catalog_features THEN ids[k] ELSE Null]

\* "if feature_set:" dropped: every entry of the response is kept
NonEmpty_KeepAll(features) == features

\* "if feature_set:" keeps the entries that are not None
NonEmpty(features) == SelectSeq(features, LAMBDA f : f # Null)

Call(ids, start, result) == [ids |-> ids, start |-> start, result |-> result]

\* One iteration of "for i in range(0, len(to_find), 100)": the bulk call,
\* on SpotifyException set_sp() and the same call again (nothing catches
\* what the second call raises), then the non-empty feature sets are kept.
GetFeaturesChunk ==
  /\ pc = "get_features" /\ i < Len(to_find)
  /\ LET ids == Chunk(to_find, i)
         got == NonEmpty(audio_features(ids))
     IN \E a1 \in {"ok", "SpotifyException", "ConnectionError"} :
          \/ /\ a1 = "ok"
             /\ calls' = Append(calls, Call(ids, i, "ok"))
             /\ feature_dict' = feature_dict \o got
             /\ i' = i + ChunkSize
             /\ UNCHANGED <<pc, raised, set_sp_calls>>
          \/ /\ a1 = "ConnectionError"
             /\ calls' = Append(calls, Call(ids, i, a1))
             /\ pc' = "raised" /\ raised' = a1
             /\ UNCHANGED <<feature_dict, i, set_sp_calls>>
          \/ /\ a1 = "SpotifyException"
             /\ set_sp_calls' = set_sp_calls + 1
             /\ \E a2 \in {"ok", "SpotifyException", "ConnectionError"} :
                  /\ calls' = calls \o <<Call(ids, i, a1), Call(ids, i, a2)>>
                  /\ IF a2 = "ok"
                     THEN /\ feature_dict' = feature_dict \o got
                          /\ i' = i + ChunkSize
                          /\ UNCHANGED <<pc, raised>>
                     ELSE /\ pc' = "raised" /\ raised' = a2
                          /\ UNCHANGED <<feature_dict, i>>
  /\ UNCHANGED <<input_data, names, trackID, resolves, to_find,
                 catalog_features, full_dataset, rehydrated_data,
                 self_person_id, resolver_vars, run_vars, add_vars,
                 unit_vars>>

TracksTable ==
  [k \in 1..Len(names) |->
     [artistName |-> names[k][1], trackName |-> names[k][2],
      trackID |-> trackID[k]]]

\* The end of get_features and of rehydrate: features =
\* DataFrame.from_records(feature_dict), the left merge of tracks with it
\* on trackID = id (KeyError "id" when feature_dict is empty: the table has
\* no column), then the left merge of the events with the result and the
\* personID column.
GetFeaturesReturn ==
  /\ pc = "get_features" /\ i >= Len(to_find)
  /\ IF feature_dict = << >>
     THEN /\ pc' = "raised" /\ raised' = "KeyError"
          /\ UNCHANGED <<full_dataset, rehydrated_data>>
     ELSE /\ full_dataset' = merge_features(TracksTable, feature_dict)
          /\ rehydrated_data' =
               personID(merge_events(input_data, full_dataset'),
                        self_person_id)
          /\ pc' = "done" /\ raised' = raised
  /\ UNCHANGED <<input_data, names, trackID, i, set_sp_calls, resolves,
                 to_find, calls, feature_dict, catalog_features,
                 self_person_id, resolver_vars, run_vars, add_vars,
                 unit_vars>>

Next ==
  \/ Rehydrate
  \/ GetTrackIdsRow
  \/ GetTrackIdsReturn
  \/ GetFeaturesChunk
  \/ GetFeaturesReturn

Spec == Init /\ [][Next]_vars

\* a ListeningHistory without person whose events are of different pairs,
\* and a catalog that has the features of every track or of none
InitFair ==
  /\ Init
  /\ self_person_id = NoPerson
  /\ catalog_features \in {{}, Ids}
  /\ \A j, k \in 1..Len(input_data) : j # k => input_data[j] # input_data[k]

\* rehydrate is one sequential call: a statement that can run does run
SpecFair == InitFair /\ [][Next]_vars /\ WF_vars(Next)

\* ------------------------------------------------ the chunk loop at scale
\* A table of n tracks as get_track_ids leaves it: n distinct pairs, every
\* seventh one MISSING, the others resolved, rows 150 apart sharing their
\* identifier.
ChunkNames(n) == [k \in 1..n |-> <<ArtistA, <<ToString(k)>>>>]

ChunkIds(n) ==
  [k \in 1..n |-> IF k % 7 = 3 THEN MISSING ELSE ToString(k % 150)]

ResolvedIds(ids) == {ids[k] : k \in 1..Len(ids)} \ Sentinels

\* the state when the loop of get_track_ids has ended for such a table
InitChunk ==
  /\ ResolverIdle /\ RunIdle /\ AddIdle
  /\ GetIdle /\ columns = PairColumns
  /\ \E n \in 0..MaxTracks :
       /\ names = ChunkNames(n)
       /\ trackID = ChunkIds(n)
       /\ i = n + 1
  /\ input_data = names /\ self_person_id = NoPerson
  /\ catalog_features \in
       {{}, ResolvedIds(trackID), ResolvedIds(SubSeq(trackID, 1, Len(trackID) \div 2))}
  /\ pc = "get_track_ids" /\ raised = ""
  /\ set_sp_calls = 1
  /\ resolves = [k \in 1..Len(trackID) |->
                   [row |-> k, kind |-> "return", value |-> trackID[k]]]
  /\ to_find = << >> /\ calls = << >> /\ feature_dict = << >>
  /\ full_dataset = << >> /\ rehydrated_data = << >>

NextChunk == GetTrackIdsReturn \/ GetFeaturesChunk \/ GetFeaturesReturn

SpecChunk == InitChunk /\ [][NextChunk]_vars

\* ------------------------------------------------------------ Rehydrator
\* most files of an input folder, most runs over the same folders
MaxFiles == 3
MaxRuns == 2

\* Rehydrator.person_ids and get_user_ids without the test
\* file.endswith(".json")
PersonIdSet_AnyFile(file_list) ==
  {split(file_list[k], "_")[1] :
     k \in {j \in 1..Len(file_list) : Len(split(file_list[j], "_")) > 1}}

\* Rehydrator.person_ids up to "if ids:": the set ids
PersonIdSet(file_list) ==
  {split(file_list[k], "_")[1] :
     k \in {j \in 1..Len(file_list) :
              /\ endswith(file_list[j], DotJson)
              /\ Len(split(file_list[j], "_")) > 1}}

\* list(ids): the elements of the set, each once, in an order the set
\* decides
Lists(S) ==
  {s \in [1..Cardinality(S) -> S] : \A x \in S : \E k \in DOMAIN s : s[k] = x}

\* the values Rehydrator.person_ids can return for a folder listing
person_ids(file_list) ==
  IF PersonIdSet(file_list) # {} THEN Lists(PersonIdSet(file_list))
  ELSE {NoIds}

\* get_user_ids(file_list) of functions.py: the same statements
get_user_ids(file_list) == person_ids(file_list)

\* ListeningHistory.input_data: the files it opens, in the order of the
\* listing
read_files(file_list, person_id) ==
  SelectSeq(file_list,
            LAMBDA f : IF person_id # NoPerson THEN startswith(f, person_id)
                       ELSE endswith(f, DotJson))

\* json.load(f): the .json files hold a list of events, the other file is
\* not JSON and json.load raises JSONDecodeError
json_load(f) == IF endswith(f, DotJson) THEN "events" ELSE "JSONDecodeError"

\* os.path.isfile(os.path.join(output_path, name))
isfile_Never(name) == FALSE

isfile(name) == output[name] # NoFile

\* exceptions ListeningHistory.rehydrate() raises when it does not return
\* (two of the values of raised in the specification of the pipeline
\* above: the merge without features, the failed retry)
PipelineRaises == {"KeyError", "SpotifyException"}

History(person_id, read, outcome) ==
  [run |-> run_no, person_id |-> person_id, files |-> read,
   outcome |-> outcome]

\* run with save called whatever rehydrate did
save_reached_Always(o) == TRUE

\* "self.save(data, person_id)" is the statement after the one that
\* rehydrates: it runs when rehydrate() returned, and what rehydrate()
\* raises leaves the loop before it
save_reached(o) == o = "returned"

\* an input folder: no name twice
Folders ==
  {s \in SeqsUpTo(FileNames, MaxFiles) :
     \A j, k \in DOMAIN s : j # k => s[j] # s[k]}

\* run is written "data = ListeningHistory(...).rehydrate", without the
\* call: data is the bound method and save raises AttributeError from
\* data.to_csv. The docstring of ListeningHistory gives the call
\* ".rehydrate()". A behaviour keeps one of the two from its first state
\* on: rehydrate_attr = "method" is the statement as written, "call" the
\* documented call.
InitRun ==
  /\ ResolverIdle /\ TracksIdle /\ AddIdle
  /\ UnitIdle
  /\ files \in Folders
  /\ output \in [OutNames -> {NoFile, OldFile}]
  /\ output0 = output
  /\ output_exists \in BOOLEAN
  /\ (\E n \in OutNames : output[n] # NoFile) => output_exists
  /\ rehydrate_attr \in {"method", "call"}
  /\ self_person_ids = NoIds /\ run_pc = "new" /\ run_i = 0
  /\ run_raised = ""
  /\ run_no = 1 /\ ended = << >> /\ histories = << >>

\* Rehydrator(input_path, output_path, sp_creds): __post_init__
PostInit ==
  /\ run_pc = "new"
  /\ self_person_ids' \in person_ids(files)
  /\ run_pc' = "run" /\ run_i' = 1
  /\ UNCHANGED <<files, output, output0, output_exists, rehydrate_attr,
                 run_raised, run_no, ended, histories,
                 resolver_vars, tracks_vars, add_vars, unit_vars>>

\* "data = ListeningHistory(input_path, person_id, sp_creds).rehydrate"
\* and "self.save(data, person_id)". The constructor reads the files; save
\* makes the output folder and writes the table. An AttributeError goes to
\* the handler of run when it is raised in the loop (in_handler false), out
\* of run when it is raised in the handler; every other exception leaves
\* run.
Hydrate(person_id, in_handler) ==
  LET read == read_files(files, person_id)
  IN IF \E k \in 1..Len(read) : json_load(read[k]) = "JSONDecodeError"
     THEN /\ histories' =
               Append(histories, History(person_id, read, "JSONDecodeError"))
          /\ run_pc' = "raised" /\ run_raised' = "JSONDecodeError"
          /\ UNCHANGED <<output, output_exists>>
     ELSE IF rehydrate_attr = "method"
     THEN /\ histories' = Append(histories, History(person_id, read, "method"))
          /\ output_exists' = TRUE
          /\ output' = output
          /\ IF in_handler
             THEN run_pc' = "raised" /\ run_raised' = "AttributeError"
             ELSE run_pc' = "except" /\ run_raised' = run_raised
     ELSE \E o \in {"returned"} \cup PipelineRaises :
            /\ histories' = Append(histories, History(person_id, read, o))
            /\ IF save_reached(o)
               THEN /\ output_exists' = TRUE
                    /\ output' = [output EXCEPT ![OutName(person_id)] =
                                    Table(person_id, read)]
                    /\ run_pc' = (IF in_handler THEN "returned" ELSE run_pc)
                    /\ run_raised' = run_raised
               ELSE /\ run_pc' = "raised" /\ run_raised' = o
                    /\ UNCHANGED <<output, output_exists>>

\* "for person in self._person_ids" when _person_ids is None: TypeError
\* ('NoneType' object is not iterable), which "except AttributeError" does
\* not catch
IterateNone ==
  /\ run_pc = "run" /\ self_person_ids = NoIds
  /\ run_pc' = "raised" /\ run_raised' = "TypeError"
  /\ UNCHANGED <<files, output, output0, output_exists, rehydrate_attr,
                 self_person_ids, run_i, run_no, ended, histories,
                 resolver_vars, tracks_vars, add_vars, unit_vars>>

\* one iteration of the loop of run
RunPerson ==
  /\ run_pc = "run" /\ self_person_ids # NoIds
  /\ run_i <= Len(self_person_ids)
  /\ LET person == self_person_ids[run_i]
     IN IF isfile(OutName(person))
        THEN UNCHANGED <<output, output_exists, run_pc, run_raised, histories>>
        ELSE Hydrate(person, FALSE)
  /\ run_i' = (IF run_pc' = "run" THEN run_i + 1 ELSE run_i)
  /\ UNCHANGED <<files, output0, rehydrate_attr, self_person_ids, run_no,
                 ended, resolver_vars, tracks_vars, add_vars, unit_vars>>

\* the handler "except AttributeError" of run
RunExcept ==
  /\ run_pc = "except"
  /\ Hydrate(NoPerson, TRUE)
  /\ UNCHANGED <<files, output0, rehydrate_attr, self_person_ids, run_i,
                 run_no, ended, resolver_vars, tracks_vars, add_vars,
                 unit_vars>>

\* the loop of run is over
RunReturn ==
  /\ run_pc = "run" /\ self_person_ids # NoIds
  /\ run_i > Len(self_person_ids)
  /\ run_pc' = "returned"
  /\ UNCHANGED <<files, output, output0, output_exists, rehydrate_attr,
                 self_person_ids, run_i, run_raised, run_no, ended,
                 histories, resolver_vars, tracks_vars, add_vars, unit_vars>>

RunOver == run_pc \in {"returned", "raised"}

\* Rehydrator(...).run() once more, over the same two folders
Rerun ==
  /\ RunOver /\ run_no < MaxRuns
  /\ run_no' = run_no + 1 /\ ended' = Append(ended, run_pc)
  /\ output0' = output
  /\ self_person_ids' = NoIds /\ run_pc' = "new" /\ run_i' = 0
  /\ run_raised' = "" /\ histories' = << >>
  /\ UNCHANGED <<files, output, output_exists, rehydrate_attr,
                 resolver_vars, tracks_vars, add_vars, unit_vars>>

RunStep == PostInit \/ IterateNone \/ RunPerson \/ RunExcept \/ RunReturn

NextRun == RunStep \/ Rerun

SpecRun == InitRun /\ [][NextRun]_vars

\* run is one sequential call: a step that can be taken is taken
SpecRunFair == SpecRun /\ WF_vars(RunStep)

\* ---------------------------------------------------------- add_track_id
Row(pair, id) == [artistName |-> pair[1], trackName |-> pair[2], trackID |-> id]

PairOf(row) == <<row.artistName, row.trackName>>

\* df[["artistName", "trackName"]]
pair_columns(df) == [k \in 1..Len(df) |-> PairOf(df[k])]

\* pairs.drop_duplicates() with the index it keeps: the first occurrence
\* of every pair under the label of its own row (labels start at 0)
first_rows(pairs) ==
  SelectSeq([k \in 1..Len(pairs) |-> [label |-> k - 1, pair |-> pairs[k]]],
            LAMBDA r : \A j \in 1..r.label : pairs[j] # r.pair)

\* DataFrame.equals: the same labels and the same values, row by row
equals(a, b) == a = b

\* unmatched_tracks with the filter on "_merge" dropped: every pair of the
\* new events
left_only_All(new_tracks, existing_tracks) ==
  [k \in 1..Len(new_tracks) |-> new_tracks[k].pair]

\* new_tracks.merge(existing_tracks, how="left", indicator=True) and the
\* rows whose "_merge" is "left_only"
left_only(new_tracks, existing_tracks) ==
  LET kept == SelectSeq(new_tracks,
                        LAMBDA r : \A j \in 1..Len(existing_tracks) :
                                     existing_tracks[j].pair # r.pair)
  IN [k \in 1..Len(kept) |-> kept[k].pair]

\* unmatched_tracks(new_df, existing_df): None, or the pairs to look up
unmatched_tracks(new_df, existing) ==
  LET existing_tracks == first_rows(pair_columns(existing))
      new_tracks == first_rows(new_df)
  IN IF equals(existing_tracks, new_tracks)
     THEN [none |-> TRUE, rows |-> << >>]
     ELSE [none |-> FALSE, rows |-> left_only(new_tracks, existing_tracks)]

\* pd.merge(file, tracks, how="left", on=["artistName", "trackName"]):
\* every event with the trackID of its pair in tracks, NaN without one
\* (tracks holds no pair twice)
merge_tracks(events, track_rows) ==
  [k \in 1..Len(events) |->
     IF \E j \in 1..Len(track_rows) : PairOf(track_rows[j]) = events[k]
     THEN Row(events[k],
              track_rows[CHOOSE j \in 1..Len(track_rows) :
                           PairOf(track_rows[j]) = events[k]].trackID)
     ELSE Row(events[k], Null)]

\* the trackID an earlier call stored for a pair
SnapshotID(pair) ==
  IF pair = <<ArtistA, TrackX>> THEN "id1"
  ELSE IF pair = <<ArtistA, TrackY>> THEN MISSING
  ELSE "id2"

\* temp/id_matched.tsv: missing, or the table an earlier call wrote for
\* the events it was given
Snapshots ==
  {NoSnapshot} \cup
  {Snapshot([k \in 1..Len(e) |-> Row(e[k], SnapshotID(e[k]))]) :
     e \in SeqsUpTo(PairSet, MaxEvents) \ {<< >>}}

InitAdd ==
  /\ ResolverIdle /\ TracksIdle /\ RunIdle
  /\ UnitIdle
  /\ file \in SeqsUpTo(PairSet, MaxEvents)
  /\ id_matched \in Snapshots
  /\ existing_df = NoSnapshot
  /\ tracks_df = << >> /\ matched = << >>
  /\ add_pc = "new" /\ add_i = 0 /\ searched = << >> /\ add_raised = ""

\* tracks["trackID"] = ""
EmptyIds(pairs) == [k \in 1..Len(pairs) |-> Row(pairs[k], "")]

\* add_track_id up to its loop: read_csv of the snapshot, unmatched_tracks
\* and the return of existing_df, or FileNotFoundError and the distinct
\* pairs of file. A file without events is a table without columns:
\* file[["artistName", "trackName"]] raises KeyError.
AddStart ==
  /\ add_pc = "new"
  /\ existing_df' = id_matched
  /\ IF file = << >>
     THEN /\ add_pc' = "raised" /\ add_raised' = "KeyError"
          /\ UNCHANGED <<tracks_df, matched, add_i>>
     ELSE IF ~id_matched.exists
     THEN /\ tracks_df' = EmptyIds(drop_duplicates(file))
          /\ add_pc' = "loop" /\ add_i' = 1
          /\ UNCHANGED <<matched, add_raised>>
     ELSE LET unmatched == unmatched_tracks(file, id_matched.rows)
          IN IF unmatched.none
             THEN /\ matched' = id_matched.rows
                  /\ add_pc' = "returned"
                  /\ UNCHANGED <<tracks_df, add_i, add_raised>>
             ELSE /\ tracks_df' = EmptyIds(unmatched.rows)
                  /\ add_pc' = "loop" /\ add_i' = 1
                  /\ UNCHANGED <<matched, add_raised>>
  /\ UNCHANGED <<file, id_matched, searched,
                 resolver_vars, tracks_vars, run_vars, unit_vars>>

\* what one iteration of the loop stores or raises for a pair
AddRowOutcomes(artist, name) ==
  {Attempt(add_track_id_row(artist, name, resp)) : resp \in Resp3}

\* one iteration of "for i, row in tracks.iterrows()"
AddRow ==
  /\ add_pc = "loop" /\ add_i <= Len(tracks_df)
  /\ searched' = Append(searched, PairOf(tracks_df[add_i]))
  /\ \E o \in AddRowOutcomes(tracks_df[add_i].artistName,
                             tracks_df[add_i].trackName) :
       IF o.kind = "return"
       THEN /\ tracks_df' = [tracks_df EXCEPT ![add_i].trackID = o.value]
            /\ add_i' = add_i + 1
            /\ UNCHANGED <<add_pc, add_raised>>
       ELSE /\ add_pc' = "raised" /\ add_raised' = o.value
            /\ UNCHANGED <<tracks_df, add_i>>
  /\ UNCHANGED <<file, id_matched, existing_df, matched,
                 resolver_vars, tracks_vars, run_vars, unit_vars>>

\* after the loop: the merge of file with tracks, matched.to_csv over
\* temp/id_matched.tsv, return matched
AddReturn ==
  /\ add_pc = "loop" /\ add_i > Len(tracks_df)
  /\ matched' = merge_tracks(file, tracks_df)
  /\ id_matched' = Snapshot(matched')
  /\ add_pc' = "returned"
  /\ UNCHANGED <<file, existing_df, tracks_df, add_i, searched, add_raised,
                 resolver_vars, tracks_vars, run_vars, unit_vars>>

NextAdd == AddStart \/ AddRow \/ AddReturn

SpecAdd == InitAdd /\ [][NextAdd]_vars

\* ------------------------------------------------- claims on the resolver
\* the catalog's own no-result answer: a result object without items
Empty(r) == r.kind = "empty"

\* the first search of resp that matches, every earlier one answered
\* without items
FirstMatchAt(resp, k) ==
  /\ resp[k].kind = "match"
  /\ \A j \in 1..(k - 1) : Empty(resp[j])

\* C3: Track.get returns the identifier of the first search attempt that
\* yields a match; in particular, when the exact search has no result and
\* the apostrophe-stripped search matches, it returns that identifier (not
\* MISSING, not an exception).
C3_FirstMatchReturned ==
  track_out.kind # "pending" =>
    \A k \in 1..3 :
      FirstMatchAt(r_resp, k) =>
        track_out.kind = "return" /\ track_out.value = r_resp[k].id

\* C4: Track.get returns MISSING when all three search attempts (exact,
\* apostrophes stripped, "- " stripped) yield no result.
C4_MissingWhenNoResult ==
  (track_out.kind # "pending" /\ \A k \in 1..3 : Empty(r_resp[k])) =>
    track_out.kind = "return" /\ track_out.value = MISSING

RemoveChars == <<NoChar, Apostrophe, DashSpace>>

SearchesInOrder(out) ==
  /\ out.kind # "pending" => Len(out.searches) \in 1..3
  /\ \A k \in 1..Len(out.searches) :
       /\ out.searches[k].artist = Replace(r_artist, RemoveChars[k])
       /\ out.searches[k].track = Replace(r_name, RemoveChars[k])
       /\ \A j \in 1..(k - 1) : NoResult(r_resp[j])

\* C5: the searches of one resolve are issued in the order exact strings,
\* apostrophes stripped, "- " stripped, at most three of them; a later
\* search is issued only after every earlier one had no result, so none is
\* issued after a match.  Stated of Track.get and of the loop body of
\* add_track_id.
C5_SearchOrder == SearchesInOrder(track_out) /\ SearchesInOrder(row_out)

\* C5 witness: both resolvers issued all three searches, for a pair whose
\* three queries differ, and the third search matched.
C5_Witness ==
  /\ Len(track_out.searches) = 3 /\ Len(row_out.searches) = 3
  /\ track_out.searches[1] # track_out.searches[2]
  /\ track_out.searches[2] # track_out.searches[3]
  /\ track_out.searches[1] # track_out.searches[3]
  /\ track_out.kind = "return" /\ track_out.value \in Ids
  /\ row_out.kind = "return" /\ row_out.value \in Ids

\* a trackID cell that records ERROR: the sentinel, or the pair carrying it
ErrorRecorded(v) ==
  v \in {ERROR, ErrorCell("SpotifyException"), ErrorCell("ConnectionError")}

\* the k-th search failed with an error, the earlier ones had no item
ErrorAt(resp, k) ==
  /\ resp[k].kind \in {"SpotifyException", "ConnectionError"}
  /\ \A j \in 1..(k - 1) : Empty(resp[j])

ErrorsBecomeERROR(out) ==
  \A k \in 1..Len(out.searches) :
    ErrorAt(r_resp, k) =>
      /\ out.kind = "return" /\ ErrorRecorded(out.value)
      /\ Len(out.searches) = k

\* C6: if any of the three search attempts of one resolve fails with an
\* error other than no-result, the resolver returns ERROR for the pair,
\* issues no further search, and does not raise the error to the caller.
C6_ErrorNotRaised == ErrorsBecomeERROR(track_out) /\ ErrorsBecomeERROR(row_out)

\* --------------------------------------------- claims on the pipeline
\* C1: ListeningHistory.rehydrate returns exactly one row per input
\* listening event, whatever the outcomes of resolution and feature lookup
\* (several pairs resolving to one identifier, identifiers without
\* features, empty mappings).
C1_RowPerEvent ==
  pc = "done" => Len(rehydrated_data) = Len(input_data)

PairsOf(rows) ==
  {<<rows[k].artistName, rows[k].trackName>> : k \in 1..Len(rows)}

\* C2: the dataset Tracks.full_dataset returns has exactly one row per
\* distinct (artistName, trackName) pair of the input events: the same set
\* of pairs, no pair twice.
C2_RowPerPair ==
  pc = "done" =>
    /\ PairsOf(full_dataset) = {input_data[k] : k \in 1..Len(input_data)}
    /\ Len(full_dataset) = Cardinality(PairsOf(full_dataset))

\* the loop of get_track_ids was left by an exception
AbortedInGetTrackIds ==
  /\ pc = "raised"
  /\ resolves # << >>
  /\ resolves[Len(resolves)].kind = "raise"

\* C7: in Tracks.get_track_ids a failure while resolving one pair is
\* recorded as that pair's outcome and does not abort the loop; the
\* remaining pairs are still resolved.
C7_FailureDoesNotAbort == ~AbortedInGetTrackIds

\* the k-th resolve is the first one of its row
FirstOfRow(k) == k = 1 \/ resolves[k - 1].row # resolves[k].row

\* C8: when resolving a pair fails with SpotifyException, get_track_ids
\* calls set_sp and retries that pair exactly once; if the retry fails
\* too, the pair is recorded as ERROR and nothing is raised.
C8_RetryOnceThenERROR ==
  \A k \in 1..Len(resolves) :
    (/\ FirstOfRow(k)
     /\ resolves[k].kind = "raise"
     /\ resolves[k].value = "SpotifyException") =>
      /\ k + 1 <= Len(resolves)
      /\ resolves[k + 1].row = resolves[k].row
      /\ (k + 2 <= Len(resolves) => resolves[k + 2].row # resolves[k].row)
      /\ resolves[k + 1].kind = "raise" =>
           trackID[resolves[k].row] = ERROR /\ pc # "raised"

\* C9: Tracks.get_features never passes MISSING or ERROR to the bulk
\* audio-features call.
C9_NoSentinelSent ==
  \A c \in 1..Len(calls) :
    \A k \in 1..Len(calls[c].ids) : calls[c].ids[k] \notin Sentinels

\* ---------------------------------------------- claims on the chunk loop
CeilDiv(n, d) == (n + d - 1) \div d

IsRetry(k) == k > 1 /\ calls[k - 1].start = calls[k].start

\* number of chunks started up to call k
ChunksUpTo(k) == Cardinality({j \in 1..k : ~IsRetry(j)})

ChunkLoopOver == pc = "get_features" /\ i >= Len(to_find)

C11_FailedRetryLosesOnlyChunk ==
  \A k \in 1..Len(calls) :
    (~IsRetry(k) /\ calls[k].result = "SpotifyException") =>
      /\ k + 1 <= Len(calls)
      /\ IsRetry(k + 1)
      /\ calls[k + 1].ids = calls[k].ids
      /\ (k + 2 <= Len(calls) => ~IsRetry(k + 2))
      /\ calls[k + 1].result # "ok" => pc # "raised"

\* the identifiers of the bulk calls that returned, in the order sent
Answered ==
  Flatten([k \in 1..Len(calls) |->
             IF calls[k].result = "ok" THEN calls[k].ids ELSE << >>])

WithFeatures(ids) == SelectSeq(ids, LAMBDA t : t \in catalog_features)

\* C12: feature_dict holds exactly the feature sets of the identifiers
\* whose response was not empty: an identifier the catalog answered with
\* None is never inserted, every other answered identifier is.
C12_OnlyNonEmptyKept ==
  /\ feature_dict = WithFeatures(Answered)
  /\ \A k \in 1..Len(feature_dict) : feature_dict[k] # Null

\* C12 witness: the loop is over, an identifier with features and one
\* without were sent, and only the first is in feature_dict.
C12_Witness ==
  /\ ChunkLoopOver
  /\ \E k \in 1..Len(to_find) : to_find[k] \in Ids \ catalog_features
  /\ \E k \in 1..Len(to_find) : to_find[k] \in catalog_features
  /\ feature_dict # << >>
  /\ Len(feature_dict) < Len(to_find)

\* the merge of tracks with the features raised
MergeFailed ==
  /\ pc = "raised" /\ raised = "KeyError"
  /\ calls # << >> /\ calls[Len(calls)].result = "ok"

\* C13: a pair whose identifier has no features (or is MISSING or ERROR)
\* is still a row of the joined table, with its identifier and null
\* features; also when no identifier at all has features (feature_dict is
\* empty).
C13_PairsWithoutFeaturesKept ==
  /\ ~MergeFailed
  /\ pc = "done" =>
       \A k \in 1..Len(names) :
         trackID[k] \notin catalog_features =>
           \E j \in 1..Len(full_dataset) :
             /\ full_dataset[j].artistName = names[k][1]
             /\ full_dataset[j].trackName = names[k][2]
             /\ full_dataset[j].trackID = trackID[k]
             /\ full_dataset[j].features = Null

\* ---------------------------------------------- claims on the Rehydrator
Underscored(f) == \E k \in 1..Len(f) : f[k] = "_"

\* what stands before the first "_" of a name
PrefixOf(f) ==
  LET k == CHOOSE j \in 1..Len(f) : f[j] = "_" /\ \A h \in 1..(j - 1) : f[h] # "_"
  IN SubSeq(f, 1, k - 1)

\* the "{id}_" prefixes of the .json files of the input folder
JsonPrefixes ==
  {PrefixOf(files[k]) :
     k \in {j \in 1..Len(files) :
              endswith(files[j], DotJson) /\ Underscored(files[j])}}

\* the ListeningHistory objects of the current run whose rehydrate() ran
Rehydrated ==
  {k \in 1..Len(histories) :
     histories[k].outcome \in {"returned"} \cup PipelineRaises}

C16_AnonymousEventuallySaved ==
  (/\ run_pc = "run" /\ self_person_ids = NoIds
   /\ \E k \in 1..Len(files) : endswith(files[k], DotJson))
    ~> (output[HydratedTsv] # NoFile)

\* C17: a failure while one user is processed does not keep run from the
\* users that follow: when run is over, every user without an earlier
\* output file has been processed.
C17_UserFailureIsolated ==
  (RunOver /\ self_person_ids # NoIds) =>
    \A k \in 1..Len(self_person_ids) :
      \/ output0[OutName(self_person_ids[k])] # NoFile
      \/ \E h \in 1..Len(histories) :
           histories[h].person_id = self_person_ids[k]

\* ------------------------------------------- claims on add_track_id
NewPairs == {file[k] : k \in 1..Len(file)}

\* the pairs of the snapshot add_track_id read
SnapshotPairs == {PairOf(existing_df.rows[k]) : k \in 1..Len(existing_df.rows)}

\* C18: with a prior snapshot, add_track_id hands to the resolver exactly
\* the pairs of the new events that the snapshot does not hold: only such
\* pairs, none twice, and all of them once the call has returned.
C18_OnlyNewPairsResolved ==
  existing_df.exists =>
    /\ \A k \in 1..Len(searched) : searched[k] \in NewPairs \ SnapshotPairs
    /\ \A j, k \in 1..Len(searched) : j # k => searched[j] # searched[k]
    /\ add_pc = "returned" =>
         {searched[k] : k \in 1..Len(searched)} = NewPairs \ SnapshotPairs

\* C18 witness: new events (A,X), (A,Y), (B,Y), snapshot (A,X), (B,Y), and
\* the call returned after one resolve, of (A,Y).
C18_Witness ==
  /\ add_pc = "returned"
  /\ file = << <<ArtistA, TrackX>>, <<ArtistA, TrackY>>, <<ArtistB, TrackY>> >>
  /\ existing_df.exists
  /\ pair_columns(existing_df.rows) =
       << <<ArtistA, TrackX>>, <<ArtistB, TrackY>> >>
  /\ searched = << <<ArtistA, TrackY>> >>

\* C19: with a prior snapshot, the table add_track_id returns holds an
\* identifier for every distinct pair of the new events: a pair of the
\* snapshot keeps the identifier of the snapshot, no pair is left without
\* one.
C19_EveryPairHasIdentifier ==
  (existing_df.exists /\ add_pc = "returned") =>
    /\ \A p \in NewPairs : \E k \in 1..Len(matched) : PairOf(matched[k]) = p
    /\ \A k \in 1..Len(matched) :
         /\ matched[k].trackID # Null
         /\ PairOf(matched[k]) \in SnapshotPairs =>
              matched[k].trackID = SnapshotID(PairOf(matched[k]))

\* C20: when the distinct pairs of the new events are the pairs of the
\* snapshot, in whatever order and rows, add_track_id returns the snapshot
\* as it is and resolves nothing.
C20_SamePairsReturnSnapshot ==
  (/\ existing_df.exists /\ add_pc = "returned"
   /\ NewPairs = SnapshotPairs) =>
    /\ matched = existing_df.rows
    /\ searched = << >>

\* ------------------------------------------------- Tracks, constructed
\* the column names a table handed to Tracks may have
ColumnNames == PairColumns \cup {"col1", "col2"}

\* a table of any columns is handed to Tracks(names=..., sp_creds=...);
\* input_data holds what its rows have in artistName and trackName
InitTracks ==
  /\ ResolverIdle /\ RunIdle /\ AddIdle /\ GetIdle
  /\ columns \in SUBSET ColumnNames
  /\ input_data \in SeqsUpTo(PairSet, MaxEvents)
  /\ self_person_id = NoPerson
  /\ catalog_features = {}
  /\ names = << >> /\ trackID = << >>
  /\ pc = "new" /\ i = 0 /\ raised = ""
  /\ set_sp_calls = 0 /\ resolves = << >>
  /\ to_find = << >> /\ calls = << >> /\ feature_dict = << >>
  /\ full_dataset = << >> /\ rehydrated_data = << >>

\* Tracks.__post_init__: self.names = self.names[["artistName",
\* "trackName"]].drop_duplicates(), then self.set_sp()
TracksPostInit ==
  /\ pc = "new"
  /\ IF HasColumns(columns, PairColumns)
     THEN /\ names' = drop_duplicates(input_data)
          /\ set_sp_calls' = set_sp_calls + 1
          /\ pc' = "constructed" /\ raised' = raised
     ELSE /\ pc' = "raised" /\ raised' = "KeyError"
          /\ UNCHANGED <<names, set_sp_calls>>
  /\ UNCHANGED <<input_data, self_person_id, trackID, i, resolves, to_find,
                 calls, feature_dict, catalog_features, full_dataset,
                 rehydrated_data, resolver_vars, run_vars, add_vars,
                 unit_vars>>

NextTracks == TracksPostInit

SpecTracks == InitTracks /\ [][NextTracks]_vars

\* --------------------------------------------- Track.get with options
\* the keyword arguments of Track.get and Track._extract_results
OptionNames ==
  {"return_all", "returned_artist", "returned_track", "artist_info",
   "audio_features"}

\* what sp.artist and sp.audio_features can do: answer, or raise
LookupAnswers == {"ok", "SpotifyException"}

\* "if <flag> is True or return_all is True"
Wanted(opts, flag) == flag \in opts \/ "return_all" \in opts

\* the dict returned, by its keys and its spotifyID entry
Info(keys, id) ==
  [kind |-> "return", keys |-> keys, spotifyID |-> id, error |-> ""]
InfoRaised(e) ==
  [kind |-> "raise", keys |-> {}, spotifyID |-> "", error |-> e]

\* Track._extract_results(results, return_all, ...): the identifier of the
\* first item (IndexError without one), then one entry per option asked
\* for; artist_info calls sp.artist (_get_genre_pop) and audio_features
\* calls sp.audio_features, in that order, and what they raise leaves the
\* method.
extract_info(r, opts, lk) ==
  LET artist_call ==
        IF Wanted(opts, "artist_info") THEN <<"artist">> ELSE << >>
      audio_call ==
        IF Wanted(opts, "audio_features") THEN <<"audio_features">>
        ELSE << >>
      keys ==
        {"spotifyID"}
        \cup (IF Wanted(opts, "returned_artist")
              THEN {"returned_artist"} ELSE {})
        \cup (IF Wanted(opts, "returned_track")
              THEN {"returned_track"} ELSE {})
        \cup (IF Wanted(opts, "artist_info")
              THEN {"artist_genres", "artist_pop"} ELSE {})
        \cup (IF Wanted(opts, "audio_features")
              THEN {"audio_features"} ELSE {})
  IN IF r.kind # "match"
     THEN [info |-> InfoRaised("IndexError"), calls |-> << >>]
     ELSE IF artist_call # << >> /\ lk.artist # "ok"
     THEN [info |-> InfoRaised(lk.artist), calls |-> artist_call]
     ELSE IF audio_call # << >> /\ lk.audio_features # "ok"
     THEN [info |-> InfoRaised(lk.audio_features),
           calls |-> artist_call \o audio_call]
     ELSE [info |-> Info(keys, r.id), calls |-> artist_call \o audio_call]

\* Track.get(return_all, ...): the searches of the nested try statement,
\* {"spotifyID": "MISSING"} or {"spotifyID": "ERROR"} returned from its
\* handlers whatever the options, and otherwise _extract_results on the
\* result of the last search made.
TrackGetOptions(artist, name, resp, opts, lk) ==
  LET g == TrackGet(artist, name, resp)
      n == Len(g.searches)
      search_calls == [k \in 1..n |-> "search"]
      x == extract_info(resp[n], opts, lk)
  IN IF g.kind = "return" /\ g.value \in Sentinels
     THEN [info |-> Info({"spotifyID"}, g.value), calls |-> search_calls]
     ELSE IF IsRaise(resp[n])
     THEN [info |-> InfoRaised(resp[n].kind), calls |-> search_calls]
     ELSE [info |-> x.info, calls |-> search_calls \o x.calls]

\* a Track of one of the pairs, the answers the catalog would give, and
\* the options of the call to come
InitGet ==
  /\ \E pair \in PairSet : r_artist = pair[1] /\ r_name = pair[2]
  /\ r_resp \in Resp3
  /\ track_out = Pending /\ row_out = Pending
  /\ TracksIdle /\ RunIdle /\ AddIdle
  /\ columns = {}
  /\ options \in SUBSET OptionNames
  /\ lookups \in [artist : LookupAnswers, audio_features : LookupAnswers]
  /\ sp_calls = << >> /\ track_info = NoInfo

\* Track(name=r_name, artist=r_artist, ...).get(**options)
TrackGetOptionsCall ==
  /\ track_info = NoInfo
  /\ LET out == TrackGetOptions(r_artist, r_name, r_resp, options, lookups)
     IN /\ track_info' = out.info
        /\ sp_calls' = out.calls
  /\ UNCHANGED <<columns, options, lookups, resolver_vars, tracks_vars,
                 run_vars, add_vars>>

NextGet == TrackGetOptionsCall

SpecGet == InitGet /\ [][NextGet]_vars

\* ------------------------------------- claims on rehydrate and Tracks
\* C21: with a person id, ListeningHistory.rehydrate gives every row of
\* its result the column personID holding that id; without one, no row has
\* such a column.
C21_PersonIDStamped ==
  pc = "done" =>
    \A k \in 1..Len(rehydrated_data) :
      IF self_person_id # NoPerson
      THEN /\ "personID" \in DOMAIN rehydrated_data[k]
           /\ rehydrated_data[k].personID = self_person_id
      ELSE "personID" \notin DOMAIN rehydrated_data[k]

\* C21 witness: rehydrate returned three rows for the person p1.
C21_Witness ==
  /\ pc = "done" /\ self_person_id = P1
  /\ Len(rehydrated_data) = 3
  /\ \A k \in 1..3 : rehydrated_data[k].personID = P1

\* C21, the other case reached: rehydrate returned rows without a person.
C21_WitnessNoPerson ==
  /\ pc = "done" /\ self_person_id = NoPerson
  /\ Len(rehydrated_data) = 3

\* C22: constructing Tracks from a table without artistName or without
\* trackName fails with KeyError, and then the Spotify object has not been
\* set up and no search or feature call has been made.
C22_MissingColumnKeyError ==
  (pc # "new" /\ ~(PairColumns \subseteq columns)) =>
    /\ pc = "raised" /\ raised = "KeyError"
    /\ set_sp_calls = 0
    /\ resolves = << >> /\ calls = << >> /\ sp_calls = << >>

\* C22 witness: a table of three rows that has artistName but no trackName
\* was handed to Tracks, and the constructor raised.
C22_Witness ==
  /\ pc = "raised" /\ raised = "KeyError"
  /\ columns = {"artistName", "col1"} /\ Len(input_data) = 3
  /\ set_sp_calls = 0

\* the entries return_all=True asks for besides spotifyID
AllInfoKeys ==
  {"returned_artist", "returned_track", "artist_genres", "artist_pop",
   "audio_features"}

\* C23: Track.get always returns a dict with the identifier (a string)
\* under spotifyID; with every option false the dict has that entry only
\* and nothing but searches was called; with return_all true the dict also
\* has returned_artist, returned_track, artist_genres, artist_pop and
\* audio_features.
C23_GetReturnsInfo ==
  track_info # NoInfo =>
    /\ track_info.kind = "return"
    /\ "spotifyID" \in track_info.keys
    /\ track_info.spotifyID \in Ids \cup Sentinels
    /\ options = {} =>
         /\ track_info.keys = {"spotifyID"}
         /\ \A k \in 1..Len(sp_calls) : sp_calls[k] = "search"
    /\ "return_all" \in options => AllInfoKeys \subseteq track_info.keys

\* C23, the part that holds: a dict returned for a track that was found
\* has exactly the entries asked for, and sp.artist and
\* sp.audio_features are called only when asked for.
C23_FoundTrackInfo ==
  (track_info.kind = "return" /\ track_info.spotifyID \in Ids) =>
    /\ (options = {} =>
          /\ track_info.keys = {"spotifyID"}
          /\ \A k \in 1..Len(sp_calls) : sp_calls[k] = "search")
    /\ ("return_all" \in options =>
          track_info.keys = AllInfoKeys \cup {"spotifyID"})

\* ------------------------------------------ claims on Rehydrator, resumed
\* the users of the current run whose files were given to a
\* ListeningHistory
Processed ==
  {histories[k].person_id :
     k \in {j \in 1..Len(histories) : histories[j].person_id # NoPerson}}

C25_PairResolvedOnce ==
  /\ \A r, q \in 1..Len(names) : r # q => names[r] # names[q]
  /\ \A j, k \in 1..Len(resolves) :
       (j < k /\ names[resolves[j].row] = names[resolves[k].row]) =>
         /\ resolves[j].kind = "raise"
         /\ resolves[j].value = "SpotifyException"
         /\ k = j + 1

\* C25 witness: three events, the first and the third of the same pair;
\* that pair was resolved once, to MISSING, and the loop went on to the
\* other pair and ended.
C25_Witness ==
  /\ pc = "get_features"
  /\ Len(input_data) = 3 /\ input_data[1] = input_data[3]
  /\ input_data[1] # input_data[2]
  /\ Len(resolves) = 2
  /\ resolves[1].row = 1 /\ resolves[1].value = MISSING
  /\ resolves[2].row = 2

\* ------------------------------------- claims on the files of a run
\* the files of a list
FilesOf(read) == {read[k] : k \in 1..Len(read)}

\* C26: the events a ListeningHistory of user P has read come only from
\* files whose name up to the first "_" is P: the history of p1 holds no
\* event of p10.
C26_OnlyOwnFiles ==
  \A k \in 1..Len(histories) :
    (histories[k].person_id # NoPerson
     /\ histories[k].outcome # "JSONDecodeError") =>
      \A f \in FilesOf(histories[k].files) :
        Underscored(f) /\ PrefixOf(f) = histories[k].person_id

\* C27: hydrated.tsv is written only when no id was found in the input
\* folder, and when ids were found no ListeningHistory over all files
\* (person_id None) is built, whatever is raised while a user is processed.
C27_NoAnonymousRunWithIds ==
  self_person_ids # NoIds =>
    /\ output[HydratedTsv] = output0[HydratedTsv]
    /\ \A k \in 1..Len(histories) : histories[k].person_id # NoPerson

\* C28: when a run that started with an empty output folder returns, the
\* events of every .json file of the input folder are in the table of some
\* output file, also those of a file without "{id}_" that stands next to
\* files with one.
C28_EveryJsonRehydrated ==
  (run_pc = "returned" /\ \A n \in OutNames : output0[n] = NoFile) =>
    \A f \in FilesOf(files) :
      endswith(f, DotJson) =>
        \E n \in OutNames :
          output[n].kind = "table" /\ f \in FilesOf(output[n].files)

\* ------------------------------------- claims on add_track_id, resumed
\* C29: the table add_track_id returns has one row per event of the file
\* it was given, in the order of the events, also when it returns the
\* snapshot.
C29_RowPerInputEvent ==
  add_pc = "returned" =>
    /\ Len(matched) = Len(file)
    /\ \A k \in 1..Len(matched) : PairOf(matched[k]) = file[k]

\* C29, the path that merges: the table returned after the loop has one
\* row per event of the file.
C29_MergedRowPerEvent ==
  (add_pc = "returned" /\ matched # existing_df.rows) =>
    /\ Len(matched) = Len(file)
    /\ \A k \in 1..Len(matched) : PairOf(matched[k]) = file[k]

\* ------------------------------------------- claims on termination
\* how many searches Track.get makes for a pair, over all answers of the
\* catalog
SearchCounts ==
  [p \in PairSet |->
     {Len(TrackGet(p[1], p[2], resp).searches) : resp \in Resp3}]

\* the position of rehydrate in its text
Phase(p) ==
  CASE p = "new" -> 0
    [] p = "get_track_ids" -> 1
    [] p = "get_features" -> 2
    [] OTHER -> 3

Terminated == pc \in {"done", "raised"}

\* rows whose resolve failed with SpotifyException, chunks whose bulk call
\* did
FailedPairs ==
  {resolves[k].row :
     k \in {j \in 1..Len(resolves) :
              resolves[j].kind = "raise"
              /\ resolves[j].value = "SpotifyException"}}
FailedChunks ==
  {calls[k].start :
     k \in {j \in 1..Len(calls) : calls[j].result = "SpotifyException"}}

\* set_sp calls after the one of Tracks.__post_init__
Refreshes == IF pc = "new" \/ names = << >> THEN 0 ELSE set_sp_calls - 1

C30_Bounds ==
  /\ \A k \in 1..Len(names) : \A n \in SearchCounts[names[k]] : n \in 1..3
  /\ \A r \in 1..Len(names) :
       Cardinality({k \in 1..Len(resolves) : resolves[k].row = r}) <= 2
  /\ \A c \in 1..Len(calls) :
       Cardinality({k \in 1..Len(calls) : calls[k].start = calls[c].start})
         <= 2
  /\ Refreshes <= Cardinality(FailedPairs) + Cardinality(FailedChunks)
  /\ pc = "get_track_ids" => i \in 1..(Len(names) + 1)
  /\ pc = "get_features" => i \in 0..(Len(to_find) + ChunkSize - 1)

\* every step moves rehydrate forward: to a later phase, or to a later
\* row or chunk of the loop it is in
C30_Forward ==
  /\ Phase(pc) < 3
  /\ \/ Phase(pc') > Phase(pc)
     \/ pc' = pc /\ i' > i

\* C30: for a finite input rehydrate terminates whatever the catalog
\* answers: a resolve makes at most three searches, a pair is resolved at
\* most twice, a chunk is sent at most twice, there is at most one set_sp
\* per failed pair or chunk, every step moves forward in a loop over a
\* finite table, and the end (returned or raised) is reached.
C30_Terminates ==
  /\ []C30_Bounds
  /\ [][C30_Forward]_vars
  /\ <>Terminated

\* C30 witness: rehydrate returned after a pair was resolved twice and a
\* chunk was sent twice, with one set_sp for each of the two failures.
C30_Witness ==
  /\ pc = "done"
  /\ Len(input_data) = 3 /\ Len(names) = 3
  /\ Len(resolves) = 4 /\ Len(calls) = 2
  /\ Cardinality(FailedPairs) = 1 /\ Cardinality(FailedChunks) = 1
  /\ set_sp_calls = 3

====
